---- MODULE Spec2Model ----
(***************************************************************************)
(* Graph construction and Prim's algorithm of src/main.py:                 *)
(* build_adjacency_list (the edge validator) followed by compute_mst (the  *)
(* lazy-deletion Prim loop), both writing to the output trace through      *)
(* write_output.                                                           *)
(*                                                                         *)
(* Python lists are sequences; the list index i of Python is position i+1  *)
(* here.  A trace line is <<kind, values>>: the kind names the             *)
(* write_output call that produced it, the values are the integers the     *)
(* f-string formats.  The lines of build_adjacency_list format the edge of  *)
(* the iteration, which is the input e of BuildEdgeOf(e); they are kept by *)
(* kind.                                                                   *)
(***************************************************************************)
EXTENDS Integers, Sequences, FiniteSets, Bags, TLC

\* Largest declared vertex count, largest edge weight, longest edge list.
MaxV == 3
MaxW == 2
MaxEdges == 2

VARIABLES
    pc,                  \* "build", "compute", "loop", "done", "error"
    num_vertices,        \* argument of both functions
    adjacency_list,      \* build_adjacency_list's list, then compute_mst's argument
    n_edges,             \* edges of the input list consumed so far
    trace,               \* lines written through write_output, in order
    visited,             \* compute_mst: visited
    priority_queue,      \* compute_mst: the heap, as a bag of (weight, to, from)
    popped,              \* compute_mst: (edge_weight, to_node, from_node) of the last heappop
    mst_adjacency_list,  \* compute_mst: mst_adjacency_list
    total_cost,          \* compute_mst: total_cost
    num_pops,            \* heappop calls of the current compute_mst call
    num_pushes,          \* heappush calls of the current compute_mst call
    num_marks,           \* executions of visited[to_node] = True in the current call
    run,                 \* which call of compute_mst on this adjacency list is running
    first                \* what the first call left, kept when a second call starts

vars == <<pc, num_vertices, adjacency_list, n_edges, trace, visited,
          priority_queue, popped, mst_adjacency_list, total_cost,
          num_pops, num_pushes, num_marks, run, first>>

------------------------------------------------------------------------------
\* Python values

\* len of [x for _ in range(n)] and of [x] * n
ListLen(n) == IF n < 0 THEN 0 ELSE n

\* [[] for _ in range(n)]
EmptyLists(n) == [i \in 1..ListLen(n) |-> <<>>]

\* [False] * n
AllFalse(n) == [i \in 1..ListLen(n) |-> FALSE]

\* lst[i] raises IndexError unless -len <= i < len
IndexOk(i, len) == (0 - len) <= i /\ i < len

\* position of lst[i]: a negative index counts from the end
Pos(i, len) == IF i < 0 THEN i + len + 1 ELSE i + 1

\* sum(visited)
RECURSIVE SumVisited(_)
SumVisited(v) ==
    IF v = <<>> THEN 0
    ELSE (IF Head(v) THEN 1 ELSE 0) + SumVisited(Tail(v))

\* write_output(output_file, text): one more line on the trace
Line(kind, values) == <<kind, values>>

------------------------------------------------------------------------------
\* build_adjacency_list

VertexInputs == (0 - 1)..MaxV
WeightInputs == (0 - 1)..MaxW
EdgeInputs == VertexInputs \X VertexInputs \X WeightInputs
VertexCounts == (0 - 1)..MaxV

\* Variant: the weight test written "< 0", which lets weight 0 through.
ClassifyZeroWeightPasses(n, e) ==
    IF n = 0 THEN "EmptyGraphEdge"
    ELSE IF e[1] < 0 \/ e[2] < 0 \/ e[1] >= n \/ e[2] >= n THEN "InvalidEndpoint"
    ELSE IF e[3] < 0 THEN "InvalidWeight"
    ELSE "EdgeAdded"

\* Variant: the endpoint test without its upper bounds.
ClassifyNoUpperBound(n, e) ==
    IF n = 0 THEN "EmptyGraphEdge"
    ELSE IF e[1] < 0 \/ e[2] < 0 THEN "InvalidEndpoint"
    ELSE IF e[3] <= 0 THEN "InvalidWeight"
    ELSE "EdgeAdded"

\* The if-chain of the loop body: the kind of line the edge gets.
Classify(n, e) ==
    IF n = 0 THEN "EmptyGraphEdge"
    ELSE IF e[1] < 0 \/ e[2] < 0 \/ e[1] >= n \/ e[2] >= n THEN "InvalidEndpoint"
    ELSE IF e[3] <= 0 THEN "InvalidWeight"
    ELSE "EdgeAdded"

\* Variant: a rejecting branch that only continues.
RejectedSilently(kind) == <<>>

\* The write_output call of a rejecting branch.
Rejected(kind) == <<Line(kind, <<>>)>>

\* lists[i].append(item), for an index in range
ListAppend(lists, i, item) ==
    [lists EXCEPT ![Pos(i, Len(lists))] = Append(@, item)]

\* Neither lists[a] nor lists[b] raises IndexError.
BothIndexOk(lists, a, b) == IndexOk(a, Len(lists)) /\ IndexOk(b, Len(lists))

\* Variant: only the append to the slot of from_node.
AddEdgeOneWay(lists, e) == ListAppend(lists, e[1], <<e[2], e[3]>>)

\* The two appends of an accepted edge.
AddEdge(lists, e) ==
    ListAppend(ListAppend(lists, e[1], <<e[2], e[3]>>), e[2], <<e[1], e[3]>>)

MstVarsUnchanged ==
    UNCHANGED <<visited, priority_queue, popped, mst_adjacency_list, total_cost,
                num_pops, num_pushes, num_marks, run, first>>

\* One iteration of "for from_node, to_node, edge_weight in edges", the next
\* edge of the list being e.
BuildEdgeOf(e) ==
    /\ pc = "build"
    /\ n_edges < MaxEdges
    /\  LET kind == Classify(num_vertices, e)
        IN  /\ n_edges' = n_edges + 1
            /\ IF kind # "EdgeAdded"
               THEN \* continue
                    /\ trace' = trace \o Rejected(kind)
                    /\ UNCHANGED <<pc, adjacency_list>>
               ELSE IF ~BothIndexOk(adjacency_list, e[1], e[2])
               THEN /\ pc' = "error"
                    /\ UNCHANGED <<trace, adjacency_list>>
               ELSE /\ adjacency_list' = AddEdge(adjacency_list, e)
                    /\ trace' = trace \o <<Line("EdgeAdded", <<>>), Line("EdgeAdded", <<>>)>>
                    /\ UNCHANGED pc
    /\ UNCHANGED num_vertices
    /\ MstVarsUnchanged

BuildEdge == \E e \in EdgeInputs : BuildEdgeOf(e)

\* The edge list is exhausted: return adjacency_list, which the caller hands
\* to compute_mst together with num_vertices.
BuildReturn ==
    /\ pc = "build"
    /\ pc' = "compute"
    /\ UNCHANGED <<num_vertices, adjacency_list, n_edges, trace>>
    /\ MstVarsUnchanged

------------------------------------------------------------------------------
\* print_adjacency_list

RECURSIVE Flatten(_)
Flatten(neighbors) ==
    IF neighbors = <<>> THEN <<>>
    ELSE <<Head(neighbors)[1], Head(neighbors)[2]>> \o Flatten(Tail(neighbors))

\* The title line, then one "Adj[i] -> ..." line per slot.
PrintAdjacencyList(lists) ==
    <<Line("AdjTitle", <<>>)>> \o
    [i \in 1..Len(lists) |-> Line("Adj", <<i - 1>> \o Flatten(lists[i]))]

------------------------------------------------------------------------------
\* compute_mst

\* Variant: the test written "< 0".
IsNegativeCount(n) == n < 0

\* "if num_vertices == 0" at the head of compute_mst
IsEmptyGraph(n) == n = 0

\* Tuple order of Python on (weight, to, from)
TupleLess(a, b) ==
    \/ a[1] < b[1]
    \/ a[1] = b[1] /\ a[2] < b[2]
    \/ a[1] = b[1] /\ a[2] = b[2] /\ a[3] < b[3]

\* Variant: a max-heap.
PopLargest(pq) ==
    {x \in BagToSet(pq) : \A y \in BagToSet(pq) : x = y \/ TupleLess(y, x)}

\* Variant: a queue keyed by the weight alone, ties in any order.
PopAnyCheapest(pq) ==
    {x \in BagToSet(pq) : \A y \in BagToSet(pq) : x[1] <= y[1]}

\* heapq.heappop returns the smallest entry of the heap
PopChoices(pq) ==
    {x \in BagToSet(pq) : \A y \in BagToSet(pq) : x = y \/ TupleLess(x, y)}

\* "while priority_queue and sum(visited) < num_vertices"
LoopCondition ==
    priority_queue # EmptyBag /\ SumVisited(visited) < num_vertices

\* "if not visited[neighbor]" for one adjacency entry
Unvisited(vis, neighbor) == ~vis[Pos(neighbor, Len(vis))]

\* No visited[neighbor] of the for loop raises IndexError.
NeighborsOk(neighbors, vis) ==
    \A i \in 1..Len(neighbors) : IndexOk(neighbors[i][1], Len(vis))

\* The for loop over adjacency_list[to_node]: the entries heappush adds, in order.
RECURSIVE Pushes(_, _, _)
Pushes(neighbors, vis, to_node) ==
    IF neighbors = <<>> THEN <<>>
    ELSE IF Unvisited(vis, Head(neighbors)[1])
    THEN <<(<<Head(neighbors)[2], Head(neighbors)[1], to_node>>)>>
         \o Pushes(Tail(neighbors), vis, to_node)
    ELSE Pushes(Tail(neighbors), vis, to_node)

RECURSIVE SeqToBag(_)
SeqToBag(s) ==
    IF s = <<>> THEN EmptyBag ELSE SetToBag({Head(s)}) (+) SeqToBag(Tail(s))

\* Variant: no lazy deletion, a popped entry is never discarded.
NeverVisited(vis, to_node) == FALSE

\* "if visited[to_node]: continue"
AlreadyVisited(vis, to_node) == vis[Pos(to_node, Len(vis))]

\* Variant: "total_cost = edge_weight".
AddCostAssign(total, edge_weight) == edge_weight

\* "total_cost += edge_weight"
AddCost(total, edge_weight) == total + edge_weight

BuildVarsUnchanged == UNCHANGED <<num_vertices, n_edges>>

\* Lines 65-74: the empty-graph return, or the initialisation before the loop.
ComputeStart ==
    /\ pc = "compute"
    /\ IF IsEmptyGraph(num_vertices)
       THEN /\ trace' = Append(trace, Line("NoMST", <<>>))
            /\ pc' = "done"
            /\ UNCHANGED <<visited, priority_queue, mst_adjacency_list, total_cost>>
       ELSE /\ visited' = AllFalse(num_vertices)
            /\ priority_queue' = SetToBag({<<0, 0, 0 - 1>>})
            /\ mst_adjacency_list' = EmptyLists(num_vertices)
            /\ total_cost' = 0
            /\ trace' = Append(trace, Line("MSTHeader", <<>>))
            /\ pc' = "loop"
    /\ popped' = <<>>
    /\ num_pops' = 0
    /\ num_pushes' = 0
    /\ num_marks' = 0
    /\ UNCHANGED <<adjacency_list, run, first>>
    /\ BuildVarsUnchanged

\* One iteration of the while loop, lines 77-88.
LoopStep ==
    /\ pc = "loop"
    /\ LoopCondition
    /\ \E item \in PopChoices(priority_queue) :
        LET edge_weight == item[1]
            to_node == item[2]
            from_node == item[3]
            rest == priority_queue (-) SetToBag({item})
            nv == Len(visited)
        IN  /\ popped' = item
            /\ num_pops' = num_pops + 1
            /\ IF ~IndexOk(to_node, nv)
               THEN /\ pc' = "error"
                    /\ priority_queue' = rest
                    /\ UNCHANGED <<visited, mst_adjacency_list, total_cost, trace,
                                   num_pushes, num_marks, adjacency_list>>
               ELSE IF AlreadyVisited(visited, to_node)
               THEN \* continue
                    /\ priority_queue' = rest
                    /\ UNCHANGED <<pc, visited, mst_adjacency_list, total_cost, trace,
                                   num_pushes, num_marks, adjacency_list>>
               ELSE LET vis == [visited EXCEPT ![Pos(to_node, nv)] = TRUE]
                        neighbors == adjacency_list[Pos(to_node, Len(adjacency_list))]
                        pushed == Pushes(neighbors, vis, to_node)
                        ok == /\ from_node # 0 - 1 =>
                                    BothIndexOk(mst_adjacency_list, from_node, to_node)
                              /\ IndexOk(to_node, Len(adjacency_list))
                              /\ NeighborsOk(neighbors, vis)
                    IN  /\ visited' = vis
                        /\ num_marks' = num_marks + 1
                        /\ IF ~ok
                           THEN /\ pc' = "error"
                                /\ priority_queue' = rest
                                /\ UNCHANGED <<mst_adjacency_list, total_cost, trace,
                                               num_pushes, adjacency_list>>
                           ELSE /\ IF from_node # 0 - 1
                                   THEN /\ trace' = Append(trace,
                                              Line("Edge", <<to_node, from_node, edge_weight>>))
                                        /\ total_cost' = AddCost(total_cost, edge_weight)
                                        /\ mst_adjacency_list' =
                                              ListAppend(
                                                ListAppend(mst_adjacency_list, from_node,
                                                           <<to_node, edge_weight>>),
                                                to_node, <<from_node, edge_weight>>)
                                   ELSE UNCHANGED <<trace, total_cost, mst_adjacency_list>>
                                /\ priority_queue' = rest (+) SeqToBag(pushed)
                                /\ num_pushes' = num_pushes + Len(pushed)
                                /\ UNCHANGED <<pc, adjacency_list>>
    /\ UNCHANGED <<run, first>>
    /\ BuildVarsUnchanged

\* The loop condition fails: lines 90-91, the total and the MST listing.
LoopExit ==
    /\ pc = "loop"
    /\ ~LoopCondition
    /\ trace' = trace \o <<Line("TotalCost", <<total_cost>>)>>
                      \o PrintAdjacencyList(mst_adjacency_list)
    /\ pc' = "done"
    /\ UNCHANGED <<adjacency_list, visited, priority_queue, popped, mst_adjacency_list,
                   total_cost, num_pops, num_pushes, num_marks, run, first>>
    /\ BuildVarsUnchanged

------------------------------------------------------------------------------
\* The lines of the trace written by compute_mst calls (everything after the
\* lines of build_adjacency_list).
BuildKinds == {"EmptyGraphEdge", "InvalidEndpoint", "InvalidWeight", "EdgeAdded"}

IsBuildLine(l) == l[1] \in BuildKinds

BuildTrace == SelectSeq(trace, IsBuildLine)

ComputeTrace == SubSeq(trace, Len(BuildTrace) + 1, Len(trace))

\* A second call of compute_mst with the same arguments, after the first
\* returned; what the first call left is kept for comparison.
Rerun ==
    /\ pc = "done"
    /\ run = 1
    /\ run' = 2
    /\ first' = [lines |-> ComputeTrace, mst |-> mst_adjacency_list,
                 cost |-> total_cost, adjacency |-> adjacency_list]
    /\ trace' = BuildTrace
    /\ pc' = "compute"
    /\ UNCHANGED <<adjacency_list, visited, priority_queue, popped, mst_adjacency_list,
                   total_cost, num_pops, num_pushes, num_marks>>
    /\ BuildVarsUnchanged

------------------------------------------------------------------------------
Init ==
    /\ pc = "build"
    /\ num_vertices \in VertexCounts
    /\ adjacency_list = EmptyLists(num_vertices)
    /\ n_edges = 0
    /\ trace = <<>>
    /\ visited = <<>>
    /\ priority_queue = EmptyBag
    /\ popped = <<>>
    /\ mst_adjacency_list = <<>>
    /\ total_cost = 0
    /\ num_pops = 0
    /\ num_pushes = 0
    /\ num_marks = 0
    /\ run = 1
    /\ first = <<>>

Next ==
    \/ BuildEdge
    \/ BuildReturn
    \/ ComputeStart
    \/ LoopStep
    \/ LoopExit

Spec == Init /\ [][Next]_vars

NextTwice ==
    \/ BuildEdge
    \/ BuildReturn
    \/ ComputeStart
    \/ LoopStep
    \/ LoopExit
    \/ Rerun

SpecTwice == Init /\ [][NextTwice]_vars

\* The program runs on a single thread and never waits: a step that can be
\* taken is taken.
FairSpec == Spec /\ WF_vars(Next)

------------------------------------------------------------------------------
\* Graph notions the properties are stated with

Vertices == 0..(num_vertices - 1)

\* The (neighbor, weight) entries of slot v
Entries(lists, v) == {lists[v + 1][i] : i \in 1..Len(lists[v + 1])}

\* How many times entry x stands in slot v
Count(lists, v, x) == Cardinality({i \in 1..Len(lists[v + 1]) : lists[v + 1][i] = x})

\* Number of entries of all slots
RECURSIVE NumEntries(_)
NumEntries(lists) ==
    IF lists = <<>> THEN 0 ELSE Len(Head(lists)) + NumEntries(Tail(lists))

\* The vertices joined to a vertex of S by a path of the lists
RECURSIVE ReachFrom(_, _)
ReachFrom(lists, S) ==
    LET T == S \cup {x[1] : x \in UNION {Entries(lists, v) : v \in S}}
    IN  IF T = S THEN S ELSE ReachFrom(lists, T)

\* The component of vertex 0 in the input graph
Component == ReachFrom(adjacency_list, {0})

Connected == Component = Vertices

\* The "Edge: to - from weight: w" lines of the current call, in order
IsEdgeLine(l) == l[1] = "Edge"

EdgeLines == SelectSeq(ComputeTrace, IsEdgeLine)

RECURSIVE SumWeights(_)
SumWeights(lines) ==
    IF lines = <<>> THEN 0 ELSE Head(lines)[2][3] + SumWeights(Tail(lines))

\* The value the "Total cost of MST" line reports; -1 when no such line was written
IsTotalLine(l) == l[1] = "TotalCost"

ReportedCost ==
    LET t == SelectSeq(ComputeTrace, IsTotalLine)
    IN  IF Len(t) = 1 THEN t[1][2][1] ELSE 0 - 1

\* How many lines of the sequence have the kind
NumLines(lines, kind) == Cardinality({i \in 1..Len(lines) : lines[i][1] = kind})

Finished == pc = "done" /\ num_vertices >= 1

------------------------------------------------------------------------------
\* C1: on a connected graph of V >= 1 vertices built by build_adjacency_list,
\* compute_mst selects exactly V-1 edges and the total it reports is the sum of
\* the weights of exactly those edges.
C1_ConnectedEdgeCountAndCost ==
    (Finished /\ Connected) =>
        /\ Len(EdgeLines) = num_vertices - 1
        /\ NumEntries(mst_adjacency_list) = 2 * (num_vertices - 1)
        /\ ReportedCost = SumWeights(EdgeLines)
        /\ total_cost = ReportedCost

\* A connected graph of three vertices whose tree has two edges.
C1_Witness ==
    /\ Finished
    /\ Connected
    /\ num_vertices = 3
    /\ Len(EdgeLines) = 2
    /\ ReportedCost >= 2

------------------------------------------------------------------------------
\* Spanning trees of the component of vertex 0, by exhaustive search: every
\* vertex of the component but 0 picks one entry of its own slot as the edge to
\* its parent, and every chain of parents must end in 0.

MaxDegree ==
    LET lens == {Len(adjacency_list[i]) : i \in 1..Len(adjacency_list)}
    IN  IF lens = {} THEN 0 ELSE CHOOSE m \in lens : \A k \in lens : k <= m

ParentChoices ==
    {f \in [Component \ {0} -> 1..MaxDegree] :
        \A v \in Component \ {0} : f[v] <= Len(adjacency_list[v + 1])}

RECURSIVE ClimbsToRoot(_, _, _)
ClimbsToRoot(f, v, fuel) ==
    IF v = 0 THEN TRUE
    ELSE IF fuel = 0 THEN FALSE
    ELSE ClimbsToRoot(f, adjacency_list[v + 1][f[v]][1], fuel - 1)

IsSpanningTree(f) ==
    \A v \in Component \ {0} : ClimbsToRoot(f, v, Cardinality(Component))

RECURSIVE TreeCost(_, _)
TreeCost(f, S) ==
    IF S = {} THEN 0
    ELSE LET v == CHOOSE x \in S : TRUE
         IN  adjacency_list[v + 1][f[v]][2] + TreeCost(f, S \ {v})

SpanningTreeCosts ==
    {TreeCost(f, Component \ {0}) : f \in {g \in ParentChoices : IsSpanningTree(g)}}

\* C2: for num_vertices >= 1 the total cost of compute_mst is the least total
\* weight of a spanning tree of the component of vertex 0.
C2_TotalCostIsMinimum ==
    Finished =>
        /\ total_cost \in SpanningTreeCosts
        /\ \A c \in SpanningTreeCosts : total_cost <= c

\* Parallel edges of different weight between 0 and 1: the dearer one is in the
\* graph and is not selected.
C2_Witness ==
    /\ Finished
    /\ \E w1, w2 \in 1..MaxW :
        /\ w1 < w2
        /\ <<1, w1>> \in Entries(adjacency_list, 0)
        /\ <<1, w2>> \in Entries(adjacency_list, 0)
        /\ <<1, w1>> \in Entries(mst_adjacency_list, 0)
        /\ <<1, w2>> \notin Entries(mst_adjacency_list, 0)

------------------------------------------------------------------------------
\* C3: for num_vertices >= 1, connected or not, the selected edges are a tree
\* on the component of vertex 0: they are edges of the graph, they join exactly
\* the vertices of the component, they are one fewer than those vertices (so
\* there is no cycle), and the slot of every other vertex is empty.
C3_SelectedEdgesFormTree ==
    Finished =>
        /\ Len(mst_adjacency_list) = num_vertices
        /\ ReachFrom(mst_adjacency_list, {0}) = Component
        /\ NumEntries(mst_adjacency_list) = 2 * (Cardinality(Component) - 1)
        /\ Len(EdgeLines) = Cardinality(Component) - 1
        /\ \A v \in Vertices :
            /\ v \notin Component => mst_adjacency_list[v + 1] = <<>>
            /\ Entries(mst_adjacency_list, v) \subseteq Entries(adjacency_list, v)
            /\ \A x \in Entries(mst_adjacency_list, v) :
                  Count(mst_adjacency_list, v, x) = Count(mst_adjacency_list, x[1], <<v, x[2]>>)

\* A disconnected graph: an entry for an already visited vertex was popped and
\* discarded, and a vertex stays unreached.
C3_Witness ==
    /\ Finished
    /\ ~Connected
    /\ Cardinality(Component) = 2
    /\ num_pops > num_marks

------------------------------------------------------------------------------
\* C4: after any prefix of any edge list the adjacency lists are symmetric: the
\* number of (v,w) entries in slot u equals the number of (u,w) entries in slot v.
C4_AdjacencySymmetric ==
    \A u \in 1..Len(adjacency_list) :
        \A x \in Entries(adjacency_list, u - 1) :
            /\ x[1] \in 0..(Len(adjacency_list) - 1)
            /\ Count(adjacency_list, u - 1, x) = Count(adjacency_list, x[1], <<u - 1, x[2]>>)

\* Two parallel edges of the same weight between different vertices.
C4_Witness ==
    /\ pc = "build"
    /\ \E u, v \in Vertices :
        /\ u # v
        /\ \E w \in 1..MaxW : Count(adjacency_list, u, <<v, w>>) = 2

\* A self-loop next to another edge.
C4_WitnessSelfLoop ==
    /\ pc = "build"
    /\ \E v \in Vertices : \E w \in 1..MaxW :
        /\ Count(adjacency_list, v, <<v, w>>) = 2
        /\ NumEntries(adjacency_list) = 4

------------------------------------------------------------------------------
\* What the validation policy says of edge e, independently of Classify.

EndpointsInRange(e) ==
    /\ 0 <= e[1] /\ e[1] < num_vertices
    /\ 0 <= e[2] /\ e[2] < num_vertices

Acceptable(e) == num_vertices # 0 /\ EndpointsInRange(e) /\ e[3] >= 1

\* Empty graph first, then the endpoints, then the weight.
FirstMatchingRule(e) ==
    IF num_vertices = 0 THEN "EmptyGraphEdge"
    ELSE IF ~EndpointsInRange(e) THEN "InvalidEndpoint"
    ELSE "InvalidWeight"

PolicyOutcome(e) ==
    /\ pc' = "build"
    /\ n_edges' = n_edges + 1
    /\ IF Acceptable(e)
       THEN /\ NumEntries(adjacency_list') = NumEntries(adjacency_list) + 2
            /\ <<e[2], e[3]>> \in Entries(adjacency_list', e[1])
            /\ <<e[1], e[3]>> \in Entries(adjacency_list', e[2])
            /\ trace' = trace \o <<Line("EdgeAdded", <<>>), Line("EdgeAdded", <<>>)>>
       ELSE /\ adjacency_list' = adjacency_list
            /\ trace' = Append(trace, Line(FirstMatchingRule(e), <<>>))
    /\ (e[1] = num_vertices /\ num_vertices # 0) =>
            trace' = Append(trace, Line("InvalidEndpoint", <<>>))
    /\ (num_vertices # 0 /\ EndpointsInRange(e) /\ e[3] \in {0, 0 - 1}) =>
            trace' = Append(trace, Line("InvalidWeight", <<>>))

\* C5: an edge is accepted exactly when num_vertices # 0, both endpoints lie in
\* 0..num_vertices-1 and the weight is at least 1; otherwise the first matching
\* rule (empty graph, endpoint, weight) names the diagnostic, nothing is added
\* to the adjacency lists, and the loop goes on to the next edge.  Stated of
\* every step the loop can take on every edge: none ends otherwise.
C5_ValidationPolicy ==
    pc = "build" =>
        \A e \in EdgeInputs : ~ENABLED (BuildEdgeOf(e) /\ ~PolicyOutcome(e))

\* A rejection for the endpoint, then an edge accepted after it.
C5_Witness ==
    /\ pc = "build"
    /\ Len(trace) = 3
    /\ trace[1][1] = "InvalidEndpoint"
    /\ trace[2][1] = "EdgeAdded"
    /\ NumEntries(adjacency_list) = 2

------------------------------------------------------------------------------
\* The kinds of line compute_mst writes when it gets past the empty-graph test
OrdinaryKinds == {"MSTHeader", "Edge", "TotalCost", "AdjTitle", "Adj"}

\* The queue ran empty before every vertex was visited.
QueueEmptiedEarly ==
    /\ Finished
    /\ priority_queue = EmptyBag
    /\ SumVisited(visited) < num_vertices

\* C6 as stated: when the queue empties before all vertices are visited, a line
\* reporting that condition is on the trace.
C6_DisconnectedIsReported ==
    QueueEmptiedEarly =>
        \E i \in 1..Len(ComputeTrace) : ComputeTrace[i][1] \notin OrdinaryKinds

\* C6, amended: every rejected edge is reported by one line of its kind and the
\* empty graph by the "no MST" line, while a queue that empties early gets no
\* line of its own: the call writes the header, one line per selected edge, the
\* total, and the listing of num_vertices slots, and nothing else.
C6_ThreeConditionsReported ==
    /\ NumLines(trace, "EmptyGraphEdge") + NumLines(trace, "InvalidEndpoint")
         + NumLines(trace, "InvalidWeight") = n_edges - (NumEntries(adjacency_list) \div 2)
    /\ NumLines(trace, "EdgeAdded") = NumEntries(adjacency_list)
    /\ num_vertices = 0 => NumLines(trace, "EmptyGraphEdge") = n_edges
    /\ (pc = "done" /\ num_vertices = 0) => NumLines(ComputeTrace, "NoMST") = 1
    /\ QueueEmptiedEarly =>
        /\ \A i \in 1..Len(ComputeTrace) : ComputeTrace[i][1] \in OrdinaryKinds
        /\ Len(ComputeTrace) = 1 + Len(EdgeLines) + 1 + 1 + num_vertices
        /\ NumLines(ComputeTrace, "MSTHeader") = 1
        /\ NumLines(ComputeTrace, "TotalCost") = 1
        /\ NumLines(ComputeTrace, "AdjTitle") = 1
        /\ NumLines(ComputeTrace, "Adj") = num_vertices

\* A run that rejected an edge for its weight and then left a vertex unreached.
C6_Witness ==
    /\ QueueEmptiedEarly
    /\ NumLines(trace, "InvalidWeight") = 1
    /\ Len(EdgeLines) = 1

------------------------------------------------------------------------------
\* C7: for every num_vertices (negative, zero, positive) and every edge list,
\* build_adjacency_list followed by compute_mst raises no IndexError, and
\* until the call has returned there is always a next step.
C7_NoException ==
    /\ pc # "error"
    /\ pc # "done" => ENABLED Next

\* A negative vertex count with edges in the list, run to the end.
C7_Witness ==
    /\ pc = "done"
    /\ num_vertices < 0
    /\ n_edges = MaxEdges

------------------------------------------------------------------------------
\* C8: compute_mst on num_vertices = 0 writes the "no MST" line and nothing
\* else, selects no edge, accumulates no cost and never enters the loop.
C8_EmptyGraphCall ==
    num_vertices = 0 =>
        /\ pc # "loop"
        /\ pc = "done" =>
            /\ ComputeTrace = <<Line("NoMST", <<>>)>>
            /\ mst_adjacency_list = <<>>
            /\ NumEntries(mst_adjacency_list) = 0
            /\ total_cost = 0
            /\ num_pops = 0
            /\ priority_queue = EmptyBag

\* The call returned on an empty graph whose edge list was not empty.
C8_Witness ==
    /\ pc = "done"
    /\ num_vertices = 0
    /\ n_edges >= 1

------------------------------------------------------------------------------
\* C9: a second call of compute_mst with the same arguments writes the same
\* lines in the same order (so selects the same edges in the same order),
\* leaves the same MST lists and the same total; every heappop takes the entry
\* that is least by weight, then vertex, then predecessor; and no step of
\* compute_mst changes adjacency_list.
C9_Deterministic ==
    [][/\ (run' = 2 /\ pc' = "done") =>
            /\ ComputeTrace' = first'.lines
            /\ mst_adjacency_list' = first'.mst
            /\ total_cost' = first'.cost
            /\ adjacency_list' = first'.adjacency
       /\ num_pops' = num_pops + 1 =>
            \A y \in BagToSet(priority_queue) : popped' = y \/ TupleLess(popped', y)
       /\ pc \in {"compute", "loop", "done"} => adjacency_list' = adjacency_list
      ]_vars

\* The second call returned on a graph where two queue entries tied on weight.
C9_Witness ==
    /\ run = 2
    /\ pc = "done"
    /\ num_vertices = 3
    /\ Len(EdgeLines) = 2
    /\ EdgeLines[1][2][3] = EdgeLines[2][2][3]
    /\ EdgeLines[1][2][2] = 0
    /\ EdgeLines[2][2][2] = 0

------------------------------------------------------------------------------
\* C10: compute_mst terminates: each vertex is marked visited at most once, no
\* more entries are pushed than the adjacency lists hold, no more are popped
\* than the sentinel and the pushed ones, and the call reaches its return,
\* the loop having ended on an empty queue or with every vertex visited.
C10_Terminates ==
    /\ [](/\ num_marks = SumVisited(visited)
          /\ num_pushes <= NumEntries(adjacency_list)
          /\ num_pops <= 1 + num_pushes
          /\ (pc = "done" /\ num_vertices # 0) =>
                (priority_queue = EmptyBag \/ SumVisited(visited) >= num_vertices))
    /\ <>(pc = "done")

\* A finished call that discarded a stale entry and pushed as many entries as
\* it could have.
C10_Witness ==
    /\ Finished
    /\ num_pops > num_marks
    /\ num_pushes >= 2

====
